---- MODULE Spec2Model ----
(***************************************************************************)
(* A model of src/modules/linked/src/user-profile-module.ts: the profile   *)
(* extractors of UserProfileModule driven against a page (the renderable   *)
(* surface), and the text parsing the extractors apply to what they read.  *)
(*                                                                         *)
(* Texts are sequences of one-character strings, so that trimming,         *)
(* splitting and integer parsing are computed, not assumed.  The           *)
(* certification "dates" text is a sequence of lexical tokens (see         *)
(* CertChunks) on which the regular expression of certifications() is run  *)
(* piece by piece.                                                         *)
(***************************************************************************)
EXTENDS Integers, Sequences, FiniteSets, TLC

(***************************************************************************)
(* Bounds of the model.                                                    *)
(***************************************************************************)
MaxDateLen == 5        \* characters of an education date text
MaxCertChunks == 6     \* chunks of a certification dates text
MaxSkills == 2         \* skill items of the skills section
MaxEndorsers == 3      \* entity nodes the endorsers list can hold
MaxClicks == 1         \* clicks a "see more" trigger takes before it vanishes
MaxItems == 1          \* items of the education / certification lists
MaxBlocks == 2         \* company blocks of the experience section
MaxRoles == 2          \* role sub-items of a company block
MaxHrefLen == 7        \* characters of an endorser's profile URL
MaxBelow == 3          \* values of Math.random() taken next below 1
MaxDelays == 2         \* iterations of the scroll loop whose delays are followed
MaxRoleInfo == 3       \* role-info lines of a role sub-item
MaxNameLen == 5        \* characters of a company-name text
MaxLogins == 3         \* calls of login() that are followed
MaxInfoLen == 4        \* characters of the info text of about()
MaxDeleteLen == 2      \* characters of the text about() deletes from it

VARIABLES
  pageUrl,                \* page.url(): "other" or "profile"
  surfaceBroken,          \* the page's context is gone: every surface call throws
  call,                   \* the public method in progress, with its arguments
  pc,                     \* where the call is
  log,                    \* the surface operations the call has performed
  outcome,                \* how the call ended: returned a value or threw
  items,                  \* the number of items the section's query found
  idx,                    \* skills(): the item the for-loop is at
  result,                 \* skills(): the Skill records pushed so far
  itemReads,              \* skills(): what was read of the item the loop is at
  subCrawls,              \* skills(): sub-crawler invocations per item (history)
  element,                \* getEndorsementsFromPopup: its argument, "null" or "link"
  gStart,                 \* length of log when getEndorsementsFromPopup was entered
  popupOpen,              \* page: the endorsers popup is displayed
  position,               \* list container: scroll position
  loaded,                 \* list container: entity nodes rendered so far
  elementScrollCompleted, \* getEndorsementsFromPopup: the local of that name
  endorsers,              \* getEndorsementsFromPopup: the enumerated entity nodes
  tasks,                  \* per entity node: where its async mapper is
  users,                  \* Promise.all's result array, filled by position
  blocks,                 \* page: per company block, the role sub-items displayed and
                          \* those behind its "expand roles" trigger
  mappers,                \* experiences(): per company block, where its async mapper is
  built,                  \* experiences(): Promise.all's result array
  contextFile,            \* file system: a file exists at authenticatedContextPath
  rememberMe,             \* login(): its argument of that name
  logins,                 \* per login(): what it found, did and ended with (history)
  text,                   \* input of a text parser under check
  parsed,                 \* output of that parser
  phase                   \* "input" or "parsed"

pageVars == <<pageUrl, surfaceBroken, popupOpen, position, loaded>>
callVars == <<call, pc, log, outcome>>
skillVars == <<items, idx, result, itemReads, subCrawls>>
popupVars == <<element, gStart, elementScrollCompleted, endorsers, tasks, users>>
expVars == <<blocks, mappers, built>>
authVars == <<contextFile, rememberMe, logins>>
mainVars == <<pageVars, callVars, skillVars, popupVars, expVars, authVars>>
fnVars == <<text, parsed, phase>>
vars == <<mainVars, fnVars>>

(***************************************************************************)
(* Texts.                                                                  *)
(***************************************************************************)
Digits == <<"0", "1", "2", "3", "4", "5", "6", "7", "8", "9">>
Whitespace == {" ", "\n"}

IsDigit(c) == \E i \in 1..10 : Digits[i] = c
DigitValue(c) == (CHOOSE i \in 1..10 : Digits[i] = c) - 1

SeqsUpTo(S, n) == UNION {[1..k -> S] : k \in 0..n}

RECURSIVE TrimStart(_)
TrimStart(s) ==
  IF s # <<>> /\ Head(s) \in Whitespace THEN TrimStart(Tail(s)) ELSE s

RECURSIVE TrimEnd(_)
TrimEnd(s) ==
  IF s # <<>> /\ s[Len(s)] \in Whitespace THEN TrimEnd(SubSeq(s, 1, Len(s) - 1)) ELSE s

\* String.prototype.trim
Trim(s) == TrimEnd(TrimStart(s))

(***************************************************************************)
(* Numbers: parseInt yields an integer or NaN.                             *)
(***************************************************************************)
NaN == [nan |-> TRUE, val |-> 0]
Int_(n) == [nan |-> FALSE, val |-> n]

RECURSIVE DigitPrefix(_)
DigitPrefix(s) ==
  IF s # <<>> /\ IsDigit(Head(s)) THEN <<Head(s)>> \o DigitPrefix(Tail(s)) ELSE <<>>

RECURSIVE Decimal(_)
Decimal(ds) ==
  IF ds = <<>> THEN 0
  ELSE 10 * Decimal(SubSeq(ds, 1, Len(ds) - 1)) + DigitValue(ds[Len(ds)])

\* parseInt(s, 10): leading white space skipped, an optional sign, then the longest
\* prefix of decimal digits; NaN when there is no digit.
ParseInt(s) ==
  LET t == TrimStart(s)
      neg == t # <<>> /\ Head(t) = "-"
      u == IF t # <<>> /\ Head(t) \in {"-", "+"} THEN Tail(t) ELSE t
      ds == DigitPrefix(u)
  IN IF ds = <<>> THEN NaN
     ELSE Int_(IF neg THEN 0 - Decimal(ds) ELSE Decimal(ds))

(***************************************************************************)
(* splitDashes (helpers/string-helpers): the text split on the dash        *)
(* character, the non-empty parts kept in order.                           *)
(***************************************************************************)
RECURSIVE SplitOn(_, _)
SplitOn(s, sep) ==
  IF \A i \in 1..Len(s) : s[i] # sep THEN <<s>>
  ELSE LET i == CHOOSE k \in 1..Len(s) : s[k] = sep /\ \A j \in 1..(k - 1) : s[j] # sep
       IN <<SubSeq(s, 1, i - 1)>> \o SplitOn(SubSeq(s, i + 1, Len(s)), sep)

splitDashes(s) == SelectSeq(SplitOn(s, "-"), LAMBDA p : p # <<>>)

(***************************************************************************)
(* education(): the date of an Education record, lines 214-224.            *)
(***************************************************************************)
MinusOne == <<"-", "1">>

EducationDate(dateInterval) ==
  LET di == splitDashes(dateInterval)
      first == IF Len(di) >= 1 THEN di[1] ELSE MinusOne     \* di[0] ?? '-1'
  IN [start |-> ParseInt(first),
      end |-> IF Len(di) > 1 THEN ParseInt(di[2]) ELSE ParseInt(first)]

(***************************************************************************)
(* certifications(): the dates text, lines 280-295.                        *)
(*                                                                         *)
(* A dates text is a sequence of tokens: the words "Issued" and "No", one  *)
(* white-space character, a word without digits ("Jan"), a run of digits   *)
(* ("2022", "2023") and the words "expiration date".  The regular          *)
(* expression is case-insensitive, so one spelling of each word stands for *)
(* all.  No piece of the expression can match part of a token and still    *)
(* let the rest match, so each piece consumes whole tokens.                *)
(*   /issued\s*([^\d]*\s+[0-9]+)\s*(no)? expiration date\s*([^\d]*\s+[0-9]+)?/i *)
(***************************************************************************)
DigitTokens == {"2022", "2023"}
CertChunks == {<<"Issued">>, <<" ">>, <<"Jan", " ", "2022">>, <<"2023">>, <<"No">>,
               <<" ", "expiration date">>}

RECURSIVE Flatten(_)
Flatten(ss) == IF ss = <<>> THEN <<>> ELSE Head(ss) \o Flatten(Tail(ss))

CertTexts == {Flatten(cs) : cs \in SeqsUpTo(CertChunks, MaxCertChunks)}

IsSpaceTok(tok) == tok = " "
IsDigitTok(tok) == tok \in DigitTokens
IsNonDigitTok(tok) == tok \notin DigitTokens

MaxOf(S) == CHOOSE x \in S : \A y \in S : y <= x

\* The number of consecutive white-space / non-digit / digit tokens from position p.
SpaceRun(t, p) ==
  MaxOf({k \in 0..(Len(t) + 1 - p) : \A i \in p..(p + k - 1) : IsSpaceTok(t[i])})
NonDigitRun(t, p) ==
  MaxOf({k \in 0..(Len(t) + 1 - p) : \A i \in p..(p + k - 1) : IsNonDigitTok(t[i])})
DigitRun(t, p) ==
  MaxOf({k \in 0..(Len(t) + 1 - p) : \A i \in p..(p + k - 1) : IsDigitTok(t[i])})

\* " expiration date" at position p
ExpirationLiteralAt(t, p) ==
  p + 1 <= Len(t) /\ t[p] = " " /\ t[p + 1] = "expiration date"

\* (no)? expiration date  at position p
NoExpirationAt(t, p) ==
  \/ p <= Len(t) /\ t[p] = "No" /\ ExpirationLiteralAt(t, p + 1)
  \/ ExpirationLiteralAt(t, p)

\* \s*(no)? expiration date ...  at position p (what follows the literal is optional)
AfterIssuedGroup(t, p) ==
  \E a \in 0..SpaceRun(t, p) : NoExpirationAt(t, p + a)

\* Whether the rest of the expression matches at position e after a date group:
\* after the last group nothing is left to match.
RestMatches(t, e, last) == last \/ AfterIssuedGroup(t, e)

\* [0-9]+ and then the rest, at q;  \s+[0-9]+ and then the rest, at q
DigitsThenRest(t, q, last) ==
  \E d \in 1..DigitRun(t, q) : RestMatches(t, q + d, last)
SpacesThenRest(t, q, last) ==
  \E c \in 1..SpaceRun(t, q) : DigitsThenRest(t, q + c, last)

\* ([^\d]*\s+[0-9]+) at position p: the position after the group, or 0 when the
\* group and the rest do not match.  Each quantifier is greedy: it takes the largest
\* count with which what follows still matches.
DateGroupDigits(t, r, last) ==
  r + MaxOf({x \in 1..DigitRun(t, r) : RestMatches(t, r + x, last)})
DateGroupSpaces(t, q, last) ==
  DateGroupDigits(t, q + MaxOf({x \in 1..SpaceRun(t, q) : DigitsThenRest(t, q + x, last)}),
                  last)
DateGroupEnd(t, p, last) ==
  IF \E x \in 0..NonDigitRun(t, p) : SpacesThenRest(t, p + x, last)
  THEN DateGroupSpaces(t, p + MaxOf({x \in 0..NonDigitRun(t, p) :
                                       SpacesThenRest(t, p + x, last)}), last)
  ELSE 0

Undefined == [def |-> FALSE, val |-> <<>>]
Defined(v) == [def |-> TRUE, val |-> v]
NoMatch == [matched |-> FALSE, g1 |-> Undefined, g2 |-> Undefined, g3 |-> Undefined]

\* The groups of a match whose first group is t[p1..e1-1], whose (no)? group matched
\* or not, and whose third group, if any, starts at p3.
MatchGroups(t, p1, e1, hasNo, p3, e3) ==
  [matched |-> TRUE,
   g1 |-> Defined(SubSeq(t, p1, e1 - 1)),
   g2 |-> IF hasNo THEN Defined(<<"No">>) ELSE Undefined,
   g3 |-> IF e3 # 0 THEN Defined(SubSeq(t, p3, e3 - 1)) ELSE Undefined]

\* \s*([^\d]*\s+[0-9]+)? after the literal, which ends before position lit
MatchTrailer(t, p1, e1, hasNo, p3) ==
  MatchGroups(t, p1, e1, hasNo, p3, DateGroupEnd(t, p3, TRUE))

\* (no)? expiration date at position p2
HasNoAt(t, p2) == p2 <= Len(t) /\ t[p2] = "No" /\ ExpirationLiteralAt(t, p2 + 1)
AfterLiteral(t, p2) == IF HasNoAt(t, p2) THEN p2 + 3 ELSE p2 + 2
MatchNo(t, p1, e1, p2) ==
  MatchTrailer(t, p1, e1, HasNoAt(t, p2),
               AfterLiteral(t, p2) + SpaceRun(t, AfterLiteral(t, p2)))

\* \s* after the first group, which ends before position e1
MatchAfterIssued(t, p1, e1) ==
  MatchNo(t, p1, e1, e1 + MaxOf({x \in 0..SpaceRun(t, e1) : NoExpirationAt(t, e1 + x)}))

MatchIssuedGroup(t, p1) == MatchAfterIssued(t, p1, DateGroupEnd(t, p1, FALSE))

\* The match attempt that starts at token s.
MatchAt(t, s) ==
  IF /\ s <= Len(t)
     /\ t[s] = "Issued"
     /\ \E x \in 0..SpaceRun(t, s + 1) : DateGroupEnd(t, s + 1 + x, FALSE) # 0
  THEN MatchIssuedGroup(t, s + 1 + MaxOf({x \in 0..SpaceRun(t, s + 1) :
                                            DateGroupEnd(t, s + 1 + x, FALSE) # 0}))
  ELSE NoMatch

\* dates.match(...): the leftmost match, or null
MatchStarts(dates) == {s \in 1..Len(dates) : MatchAt(dates, s).matched}
DatesMatch(dates) ==
  IF MatchStarts(dates) = {} THEN NoMatch
  ELSE MatchAt(dates, CHOOSE s \in MatchStarts(dates) : \A r \in MatchStarts(dates) : s <= r)

NotAvailable == <<"N/A">>

\* parsedDate of lines 283-295
ExpirationOf(matchResult) ==
  IF matchResult.g2.def
  THEN (IF matchResult.g3.def THEN matchResult.g3.val ELSE NotAvailable)
  ELSE NotAvailable

ParsedDateOf(matchResult) ==
  IF matchResult.matched
  THEN [issued |-> matchResult.g1.val, expiration |-> ExpirationOf(matchResult)]
  ELSE [issued |-> <<>>, expiration |-> <<>>]

ParsedDate(dates) == ParsedDateOf(DatesMatch(dates))

(***************************************************************************)
(* getEndorsementsFromPopup: the username of an endorser, line 407.        *)
(*   href.replace(/^\/in\/([^/]+)\/$/, '$1')                               *)
(***************************************************************************)
UsernameOfAnySegment(href) ==
  LET n == Len(href)
  IN IF /\ n >= 5
        /\ SubSeq(href, 1, 4) = <<"/", "i", "n", "/">>
        /\ href[n] = "/"
        /\ \A i \in 5..(n - 1) : href[i] # "/"
     THEN SubSeq(href, 5, n - 1)
     ELSE href

UsernameOf(href) ==
  LET n == Len(href)
  IN IF /\ n >= 6
        /\ SubSeq(href, 1, 4) = <<"/", "i", "n", "/">>
        /\ href[n] = "/"
        /\ \A i \in 5..(n - 1) : href[i] # "/"
     THEN SubSeq(href, 5, n - 1)
     ELSE href

(***************************************************************************)
(* about(), lines 89-100: the info text without its trailing control text. *)
(***************************************************************************)
\* String.prototype.lastIndexOf (line 94): the 0-based index of the last occurrence
\* of t in s, -1 when there is none.
LastIndexOf(s, t) ==
  LET at == {i \in 0..(Len(s) - Len(t)) : SubSeq(s, i + 1, i + Len(t)) = t}
  IN IF at = {} THEN -1 ELSE MaxOf(at)

\* String.prototype.substring(start, end) (line 94): both indices are clamped to
\* 0..length and swapped when start > end.
Clamp(i, n) == IF i < 0 THEN 0 ELSE IF i > n THEN n ELSE i
Substring(s, start, end) ==
  LET a == Clamp(start, Len(s))
      b == Clamp(end, Len(s))
  IN IF a <= b THEN SubSeq(s, a + 1, b) ELSE SubSeq(s, b + 1, a)

\* line 94
AboutText(ri, id) ==
  Trim(Substring(ri, 0, LastIndexOf(ri, id))
         \o Substring(ri, LastIndexOf(ri, id) + Len(id), Len(ri)))

\* A selector that matches no node: page.textContent waits and times out.
Missing == <<"missing">>

(***************************************************************************)
(* The page.  What a query finds is the page's choice at the time of the   *)
(* query; the texts of the nodes are fixed per node.                       *)
(***************************************************************************)
EntityName(k) == <<"u", Digits[k + 1]>>
EntityHref(k) ==
  IF k % 2 = 1 THEN <<"/", "i", "n", "/", "u", Digits[k + 1], "/">>
  ELSE <<"/", "c", "o", "/", "u", Digits[k + 1]>>

\* What the three reads of a skill item can give: name, badge, endorsement count.
SkillReads ==
  {[skillName |-> <<" ", "T", "L", "A", " ">>, badge |-> TRUE, count |-> <<"1", "2">>],
   [skillName |-> <<>>, badge |-> FALSE, count |-> <<>>]}

\* What the reads of fullName, shortDescription and location can give.
FieldTexts == {<<"A", "d", "a">>, Missing}

\* What the two reads of about() can give: the info text and the text of the control
\* that ends it.
AboutReads ==
  {[info |-> <<" ", "h", "i", " ", "m", "o", "r", "e">>,
    toDelete |-> <<"m", "o", "r", "e">>],
   [info |-> <<"h", "i">>, toDelete |-> Missing],
   [info |-> Missing, toDelete |-> Missing]}

EducationDateTexts ==
  {<<"2", "0", "1", "5", " ", "-", " ", "2", "0", "1", "9">>, <<"2", "0", "2", "0">>}

CertificationDateTexts ==
  {<<"Issued", " ", "Jan", " ", "2022", " ", "No", " ", "expiration date">>,
   <<"Jan", " ", "2022">>}

\* elementCompletelyScrolled (helpers): scroll position + viewport extent >= scroll
\* limit.  One entity node fills the viewport.
elementCompletelyScrolled(pos, limit) == pos + 1 >= limit

\* scrollElement (helpers): one viewport further, not past the scroll limit.
scrollElement(pos, limit) ==
  IF pos + 1 >= limit THEN pos ELSE pos + 1

(***************************************************************************)
(* Calls.                                                                  *)
(***************************************************************************)
SectionMethods == {"experiences", "education", "certifications", "skills"}
BadgeMethods == {"isPremium", "isInfluencer"}
TextMethods == {"fullName", "shortDescription", "location", "about"}
Extractors == SectionMethods \cup BadgeMethods \cup TextMethods
Methods == Extractors \cup {"getEndorsementsFromPopup"}

\* An entry of the log: a surface operation and the error it raised, if any.
Ev(op) == [op |-> op, err |-> "none"]
Failed(op, e) == [op |-> op, err |-> e]

NoOutcome == [kind |-> "none", error |-> "none", value |-> <<>>]
Returned(v) == [kind |-> "returned", error |-> "none", value |-> v]
Threw(e) == [kind |-> "threw", error |-> e, value |-> <<>>]

Pending == [name |-> <<>>, username |-> <<>>, settled |-> FALSE]
NoReads == [skillName |-> <<>>, badge |-> FALSE, nbe |-> NaN]

\* The catch clauses.  Those of the section probes (lines 139, 176, 241, 326) and of
\* the badge probes (lines 112, 126) name no error class: they catch every error.
SectionProbeCatchesNothing(e) == FALSE
SectionProbeCatches(e) == TRUE
BadgeProbeCatches(e) == TRUE

\* getEndorsementsFromPopup and its call in skills() (lines 355-359) are in no try
\* block.
SubCrawlCatches(e) == FALSE

\* The catch clause of about(), lines 95-100: TimeoutError only.
AboutCatches(e) == e = "TimeoutError"

\* The errors of the two reads of lines 90-93; the second read is made only when
\* the first has returned.
AboutReadErrors(reads, broken) ==
  LET err(t) == IF broken THEN "Fatal" ELSE IF t = Missing THEN "TimeoutError"
                ELSE "none"
  IN IF err(reads.info) # "none" THEN <<err(reads.info)>>
     ELSE <<"none", err(reads.toDelete)>>

\* lines 89-100
AboutOutcome(reads, broken) ==
  LET errs == AboutReadErrors(reads, broken)
      e == errs[Len(errs)]
  IN IF e = "none" THEN Returned(AboutText(reads.info, reads.toDelete))
     ELSE IF AboutCatches(e) THEN Returned(<<>>)
     ELSE Threw(e)

CallIdle ==
  /\ pageUrl \in {"other", "profile"}
  /\ surfaceBroken = FALSE
  /\ popupOpen = FALSE
  /\ position = 0
  /\ loaded = 0
  /\ call = [name |-> "none", detailed |-> FALSE]
  /\ pc = "idle"
  /\ log = <<>>
  /\ outcome = NoOutcome
  /\ items = 0
  /\ idx = 0
  /\ result = <<>>
  /\ itemReads = NoReads
  /\ subCrawls = <<>>
  /\ element = "null"
  /\ gStart = 0
  /\ elementScrollCompleted = FALSE
  /\ endorsers = <<>>
  /\ tasks = <<>>
  /\ users = <<>>
  /\ mappers = <<>>
  /\ built = <<>>
  /\ rememberMe = FALSE
  /\ logins = <<>>

\* The profile shown has no company block in its experience section, and no
\* authenticated context has been saved.
MainInit == CallIdle /\ blocks = <<>> /\ contextFile = FALSE

FnIdle ==
  /\ text = <<>>
  /\ parsed = <<>>
  /\ phase = "off"

Init == MainInit /\ FnIdle

ResetLocals ==
  /\ items' = 0
  /\ idx' = 0
  /\ result' = <<>>
  /\ itemReads' = NoReads
  /\ subCrawls' = <<>>
  /\ gStart' = 0
  /\ elementScrollCompleted' = FALSE
  /\ endorsers' = <<>>
  /\ tasks' = <<>>
  /\ users' = <<>>
  /\ mappers' = <<>>
  /\ built' = <<>>

\* A caller invokes a public method of the module.
CallMethod(m, d, el) ==
  /\ pc \in {"idle", "done"}
  /\ call' = [name |-> m, detailed |-> d]
  /\ element' = el
  /\ pc' = IF m = "getEndorsementsFromPopup" THEN "g_click" ELSE "init"
  /\ log' = <<>>
  /\ outcome' = NoOutcome
  /\ ResetLocals
  /\ UNCHANGED <<pageVars, fnVars, authVars, blocks>>

Call ==
  \E m \in Methods, d \in BOOLEAN, el \in {"null", "link"} :
    /\ (m # "skills" => d = FALSE)
    /\ (m # "getEndorsementsFromPopup" => el = "null")
    /\ CallMethod(m, d, el)

\* The surface breaks (the context is closed, the page crashes).
BreakSurface ==
  /\ ~surfaceBroken
  /\ pc \notin {"idle", "done"}
  /\ surfaceBroken' = TRUE
  /\ UNCHANGED <<pageUrl, popupOpen, position, loaded, callVars, skillVars, popupVars, fnVars, authVars, expVars>>

\* Where an extractor is once its `await this.init()` has returned.
AfterInit(m) ==
  IF m \in BadgeMethods THEN "badge"
  ELSE IF m = "about" THEN "about"
  ELSE IF m \in TextMethods THEN "read"
  ELSE "probe"

\* line 46: init() returns at once when page.url() is the encoded profile URL.
NavigatesAlways(url) == TRUE
Navigates(url) == url # "profile"

\* Where page.goto(u) can leave the page: at u, or at the URL a redirect of the site
\* or the browser's normalisation of u ends with.
Landings == {"profile", "other"}

\* init(), lines 44-51
InitStep ==
  /\ pc = "init"
  /\ IF ~Navigates(pageUrl)
     THEN /\ pc' = AfterInit(call.name)
          /\ UNCHANGED <<pageUrl, log, outcome>>
     ELSE IF surfaceBroken
     THEN /\ pc' = "done"
          /\ outcome' = Threw("Fatal")
          /\ log' = Append(log, Ev("goto"))
          /\ UNCHANGED pageUrl
     ELSE /\ pageUrl' \in Landings
          /\ log' = Append(log, Ev("goto"))
          /\ pc' = AfterInit(call.name)
          /\ UNCHANGED outcome
  /\ UNCHANGED <<surfaceBroken, popupOpen, position, loaded, call, skillVars, popupVars, fnVars, authVars, expVars>>

\* fullName / shortDescription / location after init(), lines 59, 69 and 78: the
\* promise of page.textContent is returned as it is.
ReadField ==
  /\ pc = "read"
  /\ \E t \in FieldTexts :
       LET e == IF surfaceBroken THEN "Fatal"
                ELSE IF t = Missing THEN "TimeoutError" ELSE "none"
       IN /\ log' = Append(log, Failed("read field", e))
          /\ outcome' = IF e = "none" THEN Returned(t) ELSE Threw(e)
  /\ pc' = "done"
  /\ UNCHANGED <<pageVars, call, skillVars, popupVars, fnVars, authVars, expVars>>

\* about() after init(), lines 89-100
About ==
  /\ pc = "about"
  /\ \E reads \in AboutReads :
       LET errs == AboutReadErrors(reads, surfaceBroken)
       IN /\ log' = log \o [i \in 1..Len(errs) |-> Failed("read about", errs[i])]
          /\ outcome' = AboutOutcome(reads, surfaceBroken)
  /\ pc' = "done"
  /\ UNCHANGED <<pageVars, call, skillVars, popupVars, fnVars, authVars, expVars>>

\* isPremium / isInfluencer after init(), lines 109-114 and 123-128
BadgeProbe ==
  /\ pc = "badge"
  /\ \E present \in BOOLEAN :
       LET e == IF surfaceBroken THEN "Fatal"
                ELSE IF ~present THEN "TimeoutError" ELSE "none"
       IN /\ log' = Append(log, Failed("wait badge", e))
          /\ outcome' = IF e = "none" THEN Returned(TRUE)
                        ELSE IF BadgeProbeCatches(e) THEN Returned(FALSE)
                        ELSE Threw(e)
  /\ pc' = "done"
  /\ UNCHANGED <<pageVars, call, skillVars, popupVars, fnVars, authVars, expVars>>

\* The try block that opens each section extractor: scrollUntilElementAppears on the
\* section, lines 137-141, 174-179, 239-244, 324-329.
SectionProbe ==
  /\ pc = "probe"
  /\ \E present \in BOOLEAN :
       LET e == IF surfaceBroken THEN "Fatal"
                ELSE IF ~present THEN "TimeoutError" ELSE "none"
       IN /\ log' = Append(log, Failed("wait section", e))
          /\ IF e = "none"
             THEN pc' = "disclose" /\ UNCHANGED outcome
             ELSE /\ pc' = "done"
                  /\ outcome' = IF SectionProbeCatches(e) THEN Returned(<<>>)
                                ELSE Threw(e)
  /\ UNCHANGED <<pageVars, call, skillVars, popupVars, fnVars, authVars, expVars>>

ClicksOf(l, what) == Cardinality({i \in 1..Len(l) : l[i].op = what})

\* clickUntilElementDissapears on the section's "see more" trigger, lines 142,
\* 180-184, 245-248, 330-333: click while the trigger is there.
ClickUntilElementDissapears ==
  /\ pc = "disclose"
  /\ IF surfaceBroken
     THEN pc' = "done" /\ outcome' = Threw("Fatal") /\ UNCHANGED log
     ELSE \/ /\ ClicksOf(log, "click seeMore") < MaxClicks
             /\ log' = Append(log, Ev("click seeMore"))
             /\ UNCHANGED <<pc, outcome>>
          \/ /\ pc' = IF call.name \in {"certifications", "skills"} THEN "settle"
                      ELSE "enumerate"
             /\ UNCHANGED <<log, outcome>>
  /\ UNCHANGED <<pageVars, call, skillVars, popupVars, fnVars, authVars, expVars>>

\* page.waitForTimeout(5000), lines 249 and 334
Settle ==
  /\ pc = "settle"
  /\ IF surfaceBroken
     THEN pc' = "done" /\ outcome' = Threw("Fatal") /\ UNCHANGED log
     ELSE pc' = "enumerate" /\ log' = Append(log, Ev("delay")) /\ UNCHANGED outcome
  /\ UNCHANGED <<pageVars, call, skillVars, popupVars, fnVars, authVars, expVars>>

\* What the query for the items of a section can find.  The company blocks are those
\* of the page; the other lists are the page's choice at the time of the query.
ItemsOnPage(m) ==
  IF m = "skills" THEN 0..MaxSkills
  ELSE IF m = "experiences" THEN {Len(blocks)}
  ELSE 0..MaxItems

\* A mapper of experiences() as experienceWE.map leaves it (lines 147-155): the reads
\* of lines 148-151 are issued and the driver of line 152 is in progress.
MapperStarted == [at |-> "driver", query |-> "issued", re |-> <<>>]
PendingExperience == [settled |-> FALSE, block |-> 0, path |-> "none", roles |-> <<>>]

\* The query for the section's items: lines 143, 186, 250, 336.  In experiences()
\* the mappers of line 147 start with its answer.
EnumerateItems ==
  /\ pc = "enumerate"
  /\ IF surfaceBroken
     THEN /\ pc' = "done" /\ outcome' = Threw("Fatal")
          /\ UNCHANGED <<log, skillVars, mappers, built>>
     ELSE \E n \in ItemsOnPage(call.name) :
            /\ log' = Append(log, Ev("enumerate items"))
            /\ items' = n
            /\ idx' = 1
            /\ subCrawls' = [k \in 1..n |-> 0]
            /\ UNCHANGED <<result, itemReads>>
            /\ IF call.name = "experiences"
               THEN /\ mappers' = [k \in 1..n |-> MapperStarted]
                    /\ built' = [k \in 1..n |-> PendingExperience]
               ELSE UNCHANGED <<mappers, built>>
            /\ IF call.name \in {"skills", "experiences"} /\ n = 0
               THEN pc' = "done" /\ outcome' = Returned(<<>>)
               ELSE /\ pc' = IF call.name = "skills" THEN "item"
                           ELSE IF call.name = "experiences" THEN "blocks"
                           ELSE "build"
                    /\ UNCHANGED outcome
  /\ UNCHANGED <<pageVars, call, popupVars, fnVars, authVars, blocks>>

\* Whether skills() runs the sub-crawler for an item: `detailed ? ... : []`, line 355.
InvokesSubCrawlerAlways(detailed) == TRUE
InvokesSubCrawler(detailed) == detailed

\* The head of the for-loop body of skills(), lines 345-359: the three reads are
\* started, the endorsement count is parsed and, in detailed mode, the detail link is
\* queried and handed to getEndorsementsFromPopup.
SkillItem ==
  /\ pc = "item"
  /\ IF surfaceBroken
     THEN /\ pc' = "done" /\ outcome' = Threw("Fatal")
          /\ UNCHANGED <<log, itemReads, subCrawls, element, gStart, users>>
     ELSE \E r \in SkillReads, el \in {"null", "link"} :
            /\ itemReads' = [skillName |-> r.skillName, badge |-> r.badge,
                             nbe |-> ParseInt(r.count)]
            /\ UNCHANGED outcome
            /\ IF InvokesSubCrawler(call.detailed)
               THEN /\ log' = Append(log, Ev("query detailLink"))
                    /\ element' = el
                    /\ gStart' = Len(log')
                    /\ subCrawls' = [subCrawls EXCEPT ![idx] = @ + 1]
                    /\ pc' = "g_click"
                    /\ UNCHANGED users
               ELSE /\ el = "null"
                    /\ users' = <<>>
                    /\ pc' = "push"
                    /\ UNCHANGED <<log, element, gStart, subCrawls>>
  /\ UNCHANGED <<pageVars, call, items, idx, result, elementScrollCompleted, endorsers,
                 tasks, fnVars, authVars, expVars>>

\* The for...of loop of line 344 is over when the item pushed was the last of
\* skillItems.
LoopOverAfterFirst(i, n) == TRUE
LoopOver(i, n) == i = n

\* result.push(...), lines 360-365, and the return of line 367 after the last item.
PushSkill ==
  /\ pc = "push"
  /\ result' = Append(result, [endorsements |-> users,
                               name |-> Trim(itemReads.skillName),
                               hasLinkedInAssesmentBadge |-> itemReads.badge,
                               numberOfEndorsements |-> itemReads.nbe])
  /\ idx' = idx + 1
  /\ IF LoopOver(idx, items)
     THEN pc' = "done" /\ outcome' = Returned(result')
     ELSE pc' = "item" /\ UNCHANGED outcome
  /\ UNCHANGED <<pageVars, call, log, items, itemReads, subCrawls, popupVars, fnVars, authVars, expVars>>

(***************************************************************************)
(* getEndorsementsFromPopup, lines 375-414.                                *)
(***************************************************************************)
InSubCrawl == pc \in {"g_click", "g_wait", "g_check", "g_scroll", "g_delay",
                      "g_enumerate", "g_map"}

\* An error leaves getEndorsementsFromPopup; in skills() it reaches the call of
\* lines 355-359.
GThrow(e) ==
  IF call.name = "skills" /\ SubCrawlCatches(e)
  THEN pc' = "push" /\ users' = <<>> /\ UNCHANGED outcome
  ELSE pc' = "done" /\ outcome' = Threw(e) /\ UNCHANGED users

\* getEndorsementsFromPopup returns v.
GReturn(v) ==
  /\ users' = v
  /\ IF call.name = "skills"
     THEN pc' = "push" /\ UNCHANGED outcome
     ELSE pc' = "done" /\ outcome' = Returned(v)

\* await element?.click(), line 378
GClick ==
  /\ pc = "g_click"
  /\ IF element = "null"
     THEN /\ pc' = "g_wait"
          /\ UNCHANGED <<log, outcome, users, popupOpen, position, loaded>>
     ELSE IF surfaceBroken
     THEN GThrow("Fatal") /\ UNCHANGED <<log, popupOpen, position, loaded>>
     ELSE /\ log' = Append(log, Ev("click detailLink"))
          /\ pc' = "g_wait"
          /\ UNCHANGED <<outcome, users>>
          /\ \/ UNCHANGED <<popupOpen, position, loaded>>
             \/ /\ popupOpen' = TRUE
                /\ position' = 0
                /\ loaded' \in 0..MaxEndorsers
  /\ UNCHANGED <<pageUrl, surfaceBroken, call, skillVars, element, gStart,
                 elementScrollCompleted, endorsers, tasks, fnVars, authVars, expVars>>

\* The wait for the popup and for its list container, lines 379-384
GWaitPopup ==
  /\ pc = "g_wait"
  /\ IF surfaceBroken
     THEN log' = Append(log, Failed("wait popup", "Fatal")) /\ GThrow("Fatal")
     ELSE IF ~popupOpen
     THEN log' = Append(log, Failed("wait popup", "TimeoutError")) /\ GThrow("TimeoutError")
     ELSE /\ log' = Append(log, Ev("wait popup"))
          /\ pc' = "g_check"
          /\ UNCHANGED <<outcome, users>>
  /\ UNCHANGED <<pageVars, call, skillVars, element, gStart, elementScrollCompleted,
                 endorsers, tasks, fnVars, authVars, expVars>>

ScrollsOf(l, from) == Cardinality({i \in (from + 1)..Len(l) : l[i].op = "scroll"})

\* The test of the while loop, line 387: `while (!elementScrollCompleted)`.
LoopExitsCapped(completed, scrolls) == completed \/ scrolls >= 1
LoopExits(completed, scrolls) == completed

\* elementCompletelyScrolled, lines 385 and 390, and the loop test that follows it
GCheck ==
  /\ pc = "g_check"
  /\ IF surfaceBroken
     THEN GThrow("Fatal") /\ UNCHANGED <<log, elementScrollCompleted>>
     ELSE /\ elementScrollCompleted' = elementCompletelyScrolled(position, loaded)
          /\ log' = Append(log, Ev(IF elementScrollCompleted' THEN "check true"
                                   ELSE "check false"))
          /\ pc' = IF LoopExits(elementScrollCompleted', ScrollsOf(log, gStart))
                   THEN "g_enumerate" ELSE "g_scroll"
          /\ UNCHANGED <<outcome, users>>
  /\ UNCHANGED <<pageVars, call, skillVars, element, gStart, endorsers, tasks, fnVars, authVars, expVars>>

\* scrollElement, line 388
GScroll ==
  /\ pc = "g_scroll"
  /\ IF surfaceBroken
     THEN GThrow("Fatal") /\ UNCHANGED <<log, position>>
     ELSE /\ log' = Append(log, Ev("scroll"))
          /\ position' = scrollElement(position, loaded)
          /\ pc' = "g_delay"
          /\ UNCHANGED <<outcome, users>>
  /\ UNCHANGED <<pageUrl, surfaceBroken, popupOpen, loaded, call, skillVars, element,
                 gStart, elementScrollCompleted, endorsers, tasks, fnVars, authVars, expVars>>

\* page.waitForTimeout(...), line 389; the list may load more entities meanwhile
GDelay ==
  /\ pc = "g_delay"
  /\ IF surfaceBroken
     THEN GThrow("Fatal") /\ UNCHANGED <<log, loaded>>
     ELSE /\ log' = Append(log, Ev("delay"))
          /\ loaded' \in loaded..MaxEndorsers
          /\ pc' = "g_check"
          /\ UNCHANGED <<outcome, users>>
  /\ UNCHANGED <<pageUrl, surfaceBroken, popupOpen, position, call, skillVars, element,
                 gStart, elementScrollCompleted, endorsers, tasks, fnVars, authVars, expVars>>

\* listContainer.$$(entity), line 392, and the start of the mappers of line 394
GEnumerate ==
  /\ pc = "g_enumerate"
  /\ IF surfaceBroken
     THEN GThrow("Fatal") /\ UNCHANGED <<log, endorsers, tasks>>
     ELSE /\ log' = Append(log, Ev("enumerate entities"))
          /\ endorsers' = [k \in 1..loaded |-> k]
          /\ tasks' = [k \in 1..loaded |-> [at |-> "name", name |-> <<>>]]
          /\ users' = [k \in 1..loaded |-> Pending]
          /\ pc' = "g_map"
          /\ UNCHANGED outcome
  /\ UNCHANGED <<pageVars, call, skillVars, element, gStart, elementScrollCompleted,
                 fnVars, authVars, expVars>>

\* Promise.all, line 393: the value of the k-th promise is the k-th of the result.
PromiseAllByCompletion(arr, k, v) ==
  LET free == CHOOSE i \in 1..Len(arr) :
                ~arr[i].settled /\ \A j \in 1..(i - 1) : arr[j].settled
  IN [arr EXCEPT ![free] = v]
PromiseAllPut(arr, k, v) == [arr EXCEPT ![k] = v]

\* One await of the mapper of entity k, lines 395-408: the name, then the link.
GMapStep(k) ==
  /\ pc = "g_map"
  /\ tasks[k].at # "done"
  /\ IF surfaceBroken
     THEN GThrow("Fatal") /\ UNCHANGED tasks
     ELSE /\ UNCHANGED <<pc, outcome>>
          /\ IF tasks[k].at = "name"
             THEN /\ tasks' = [tasks EXCEPT ![k] =
                                 [at |-> "link", name |-> EntityName(endorsers[k])]]
                  /\ UNCHANGED users
             ELSE /\ tasks' = [tasks EXCEPT ![k].at = "done"]
                  /\ users' = PromiseAllPut(users, k,
                                [name |-> tasks[k].name,
                                 username |-> UsernameOf(EntityHref(endorsers[k])),
                                 settled |-> TRUE])
  /\ UNCHANGED <<pageVars, call, log, skillVars, element, gStart, elementScrollCompleted,
                 endorsers, fnVars, authVars, expVars>>

Collected(arr) == [k \in 1..Len(arr) |-> [name |-> arr[k].name, username |-> arr[k].username]]

\* After Promise.all: the close of the popup and the return, lines 411-413.
GClose ==
  /\ pc = "g_map"
  /\ \A k \in 1..Len(tasks) : tasks[k].at = "done"
  /\ IF surfaceBroken
     THEN GThrow("Fatal") /\ UNCHANGED <<log, popupOpen>>
     ELSE \/ /\ log' = Append(log, Ev("query closeButton"))      \* no close control
             /\ GReturn(Collected(users))
             /\ UNCHANGED popupOpen
          \/ /\ log' = log \o <<Ev("query closeButton"), Ev("click closeButton")>>
             /\ GReturn(Collected(users))
             /\ popupOpen' = FALSE
          \/ /\ log' = log \o <<Ev("query closeButton"),                \* the click fails
                                 Failed("click closeButton", "TimeoutError")>>
             /\ GThrow("TimeoutError")
             /\ UNCHANGED popupOpen
  /\ UNCHANGED <<pageUrl, surfaceBroken, position, loaded, call, skillVars, element,
                 gStart, elementScrollCompleted, endorsers, tasks, fnVars, authVars, expVars>>

(***************************************************************************)
(* The records of education() and certifications().                        *)
(***************************************************************************)
\* The per-item reads and the records built from them: lines 186-230 (the date of
\* an Education), 250-314 (issued and expiration of a Certification).
BuildRecords ==
  /\ pc = "build"
  /\ pc' = "done"
  /\ IF surfaceBroken
     THEN outcome' = Threw("Fatal")
     ELSE IF call.name = "education"
     THEN \E ts \in [1..items -> EducationDateTexts] :
            outcome' = Returned([k \in 1..items |-> [date |-> EducationDate(ts[k])]])
     ELSE \E ts \in [1..items -> CertificationDateTexts] :
            outcome' = Returned([k \in 1..items |-> ParsedDate(ts[k])])
  /\ UNCHANGED <<pageVars, call, log, skillVars, popupVars, fnVars, authVars, expVars>>

MainNext ==
  \/ Call
  \/ BreakSurface
  \/ InitStep
  \/ ReadField
  \/ About
  \/ BadgeProbe
  \/ SectionProbe
  \/ ClickUntilElementDissapears
  \/ Settle
  \/ EnumerateItems
  \/ SkillItem
  \/ PushSkill
  \/ GClick
  \/ GWaitPopup
  \/ GCheck
  \/ GScroll
  \/ GDelay
  \/ GEnumerate
  \/ \E k \in 1..MaxEndorsers + 1 : k <= Len(tasks) /\ GMapStep(k)
  \/ GClose
  \/ BuildRecords

Next == MainNext

Spec == Init /\ [][Next]_vars

(***************************************************************************)
(* The text parsers on their own: every text within the bounds is parsed.  *)
(***************************************************************************)
DateAlphabet == {"1", "9", " ", "-", "a"}
EducationTexts == SeqsUpTo(DateAlphabet, MaxDateLen)

MainIdle == MainInit /\ pageUrl = "profile"

EducationInit ==
  /\ MainIdle
  /\ text \in EducationTexts
  /\ parsed = <<>>
  /\ phase = "input"

\* education(), lines 214-224, on the date text of one list item
ParseEducationDate ==
  /\ phase = "input"
  /\ parsed' = EducationDate(text)
  /\ phase' = "parsed"
  /\ UNCHANGED <<text, mainVars>>

EducationSpec == EducationInit /\ [][ParseEducationDate]_vars

CertificationInit ==
  /\ MainIdle
  /\ text \in CertTexts
  /\ parsed = <<>>
  /\ phase = "input"

\* certifications(), lines 280-295, on the dates text of one item
ParseCertificationDates ==
  /\ phase = "input"
  /\ parsed' = ParsedDate(text)
  /\ phase' = "parsed"
  /\ UNCHANGED <<text, mainVars>>

CertificationSpec == CertificationInit /\ [][ParseCertificationDates]_vars

(***************************************************************************)
(* The time interval of a Role: getExperienceWithSingleRole, lines 518-522, *)
(* and getExperiencesWithMultipleRoles, lines 448 and 466-469.             *)
(***************************************************************************)
\* undefined (an index past the end of an array) and null (textContent of a node
\* without text): no text is this value, texts being made of one-character strings.
Nothing == <<"undefined">>

\* parts[i], i counted from 0 as in the source
At(parts, i) == IF i + 1 <= Len(parts) THEN parts[i + 1] ELSE Nothing

\* v ?? d
OrElse(v, d) == IF v = Nothing THEN d ELSE v

\* The record a parser yields, or the TypeError of a method call on undefined.
TypeErrorThrown == [threw |-> TRUE, start |-> <<>>, end |-> <<>>]
DateIntervalOf(s, e) == [threw |-> FALSE, start |-> s, end |-> e]

\* lines 520-521: splittedTimeInterval[0]! and
\* (splittedTimeInterval.length === 2 ? splittedTimeInterval[1] : splittedTimeInterval[0])!
SingleRoleSelectFirstOnly(parts) == [start |-> At(parts, 0), end |-> At(parts, 0)]
SingleRoleSelect(parts) ==
  [start |-> At(parts, 0),
   end |-> IF Len(parts) = 2 THEN At(parts, 1) ELSE At(parts, 0)]

\* lines 467-468: (ti[0] ?? '') and ((ti.length !== 2 ? ti[0] : ti[1]) ?? '')
MultiRoleSelect(ti) ==
  [start |-> OrElse(At(ti, 0), <<>>),
   end |-> OrElse(IF Len(ti) # 2 THEN At(ti, 0) ELSE At(ti, 1), <<>>)]

\* lines 222-223: di[0] ?? '-1' and (di.length > 1 ? di[1]! : di[0] ?? '-1')
EducationSelect(di) ==
  [start |-> OrElse(At(di, 0), MinusOne),
   end |-> IF Len(di) > 1 THEN At(di, 1) ELSE OrElse(At(di, 0), MinusOne)]

\* lines 518-522: `!` asserts nothing at run time, .trim() of undefined throws
SingleRoleInterval(tInterval) ==
  LET sel == SingleRoleSelect(splitDashes(tInterval))
  IN IF sel.start = Nothing \/ sel.end = Nothing THEN TypeErrorThrown
     ELSE DateIntervalOf(Trim(sel.start), Trim(sel.end))

\* lines 448 and 466-469, on what roleInfo[0].textContent() gave
MultiRoleInterval(textContent) ==
  LET sel == MultiRoleSelect(splitDashes(OrElse(textContent, <<>>)))
  IN DateIntervalOf(Trim(sel.start), Trim(sel.end))

\* The interval texts of the role summaries; textContent() can also give null.
IntervalTexts == SeqsUpTo(DateAlphabet, MaxDateLen)

IntervalInit ==
  /\ MainIdle
  /\ text \in IntervalTexts \cup {Nothing}
  /\ parsed = <<>>
  /\ phase = "input"

\* The single-role path reads the text with safeTextContent, which gives a string.
ParseSingleRoleInterval ==
  /\ phase = "input"
  /\ text # Nothing
  /\ parsed' = [interval |-> SingleRoleInterval(text),
                selected |-> SingleRoleSelect(splitDashes(text))]
  /\ phase' = "single"
  /\ UNCHANGED <<text, mainVars>>

ParseMultiRoleInterval ==
  /\ phase = "input"
  /\ parsed' = [interval |-> MultiRoleInterval(text),
                selected |-> MultiRoleSelect(splitDashes(OrElse(text, <<>>)))]
  /\ phase' = "multi"
  /\ UNCHANGED <<text, mainVars>>

\* education() reads its date text with safeTextContent as well.
SelectEducationDate ==
  /\ phase = "input"
  /\ text # Nothing
  /\ parsed' = [interval |-> EducationDate(text),
                selected |-> EducationSelect(splitDashes(text))]
  /\ phase' = "education"
  /\ UNCHANGED <<text, mainVars>>

IntervalNext ==
  \/ ParseSingleRoleInterval
  \/ ParseMultiRoleInterval
  \/ SelectEducationDate

IntervalSpec == IntervalInit /\ [][IntervalNext]_vars

(***************************************************************************)
(* experiences() on a page with company blocks: the mappers of lines       *)
(* 147-164, one per block, run interleaved.                                *)
(***************************************************************************)
\* A company block of the page: role sub-items displayed, and role sub-items that a
\* click on the block's "expand roles" trigger reveals (the trigger is there while
\* there are such).
BlockConfigs ==
  {cfg \in [shown : 0..MaxRoles, collapsed : 0..1] : cfg.shown + cfg.collapsed <= MaxRoles}

\* The subtree a block-level driver works on: the scope argument of line 154.  A
\* block is named by its position; 0 names the whole page (no scope argument).
DriverScopeOmitted(experienceItem) == 0
DriverScope(experienceItem) == experienceItem

\* The blocks of a scope that show an "expand roles" trigger.
TriggersIn(scope) ==
  {b \in 1..Len(blocks) : blocks[b].collapsed > 0 /\ (scope = 0 \/ scope = b)}

\* `if (re.length)`, line 158
TakesMultiRolePathFromTwo(re) == Len(re) > 1
TakesMultiRolePath(re) == Len(re) > 0

\* The number of role-info lines a role sub-item can hold (lines 438-453), and the
\* interval texts a block summary can hold (line 506).
RoleInfoLineCounts == {1, 3}
SummaryIntervalTexts == {<<>>, <<"1", " ", "-", " ", "9">>}
RoleIntervalText == <<"1", " ", "-">>

Failure == [threw |-> TRUE, block |-> 0, path |-> "none", roles |-> <<>>]

\* getExperiencesWithMultipleRoles, lines 424-486: one Role per element of
\* roleElements, in their order; roleInfo[1]!.textContent() (line 453) throws for a
\* sub-item with fewer than two role-info lines.
MultiRoleExperience(k, re, lines) ==
  IF \E i \in 1..Len(re) : lines[i] < 2 THEN Failure
  ELSE [threw |-> FALSE, block |-> k, path |-> "multi",
        roles |-> [i \in 1..Len(re) |->
                     [item |-> <<k, re[i]>>,
                      timeInterval |-> MultiRoleInterval(RoleIntervalText)]]]

\* getExperienceWithSingleRole, lines 494-542: the block is its only role.
SingleRoleExperience(k, tInterval) ==
  IF SingleRoleInterval(tInterval).threw THEN Failure
  ELSE [threw |-> FALSE, block |-> k, path |-> "single",
        roles |-> <<[item |-> <<k, 0>>, timeInterval |-> SingleRoleInterval(tInterval)]>>]

\* The page answers experienceItem.$$(roleContainer), issued at line 149: the role
\* sub-items displayed at that time.
RoleQueryResolves(k) ==
  /\ pc = "blocks"
  /\ mappers[k].query = "issued"
  /\ IF surfaceBroken
     THEN pc' = "done" /\ outcome' = Threw("Fatal") /\ UNCHANGED mappers
     ELSE /\ mappers' = [mappers EXCEPT ![k].query = "resolved",
                                        ![k].re = [i \in 1..blocks[k].shown |-> i]]
          /\ UNCHANGED <<pc, outcome>>
  /\ UNCHANGED <<pageVars, call, log, skillVars, popupVars, fnVars, authVars, blocks, built>>

\* clickUntilElementDissapears(expandRoles, experienceItem), lines 152-155: click
\* while the trigger is there, return when it is not.
BlockDriver(k) ==
  /\ pc = "blocks"
  /\ mappers[k].at = "driver"
  /\ IF surfaceBroken
     THEN pc' = "done" /\ outcome' = Threw("Fatal") /\ UNCHANGED <<log, blocks, mappers>>
     ELSE IF TriggersIn(DriverScope(k)) # {}
     THEN LET b == CHOOSE x \in TriggersIn(DriverScope(k)) :
                     \A y \in TriggersIn(DriverScope(k)) : x <= y
          IN /\ blocks' = [blocks EXCEPT ![b] = [shown |-> @.shown + @.collapsed,
                                                 collapsed |-> 0]]
             /\ log' = Append(log, Ev("click expandRoles"))
             /\ UNCHANGED <<pc, outcome, mappers>>
     ELSE /\ mappers' = [mappers EXCEPT ![k].at = "join"]
          /\ UNCHANGED <<pc, outcome, log, blocks>>
  /\ UNCHANGED <<pageVars, call, skillVars, popupVars, fnVars, authVars, built>>

Experiences(arr) ==
  [k \in 1..Len(arr) |-> [block |-> arr[k].block, path |-> arr[k].path,
                          roles |-> arr[k].roles]]

\* Promise.all([roleElements, companyURLLink]).then(...), lines 156-163, with the
\* path taken (lines 424-542); the outer Promise.all of line 146 resolves with the
\* last mapper and rejects with the first that throws.
JoinBlock(k) ==
  /\ pc = "blocks"
  /\ mappers[k].at = "join"
  /\ mappers[k].query = "resolved"
  /\ IF surfaceBroken
     THEN pc' = "done" /\ outcome' = Threw("Fatal") /\ UNCHANGED <<mappers, built>>
     ELSE \E lines \in [1..Len(mappers[k].re) -> RoleInfoLineCounts],
             tInterval \in SummaryIntervalTexts :
            LET re == mappers[k].re
                exp == IF TakesMultiRolePath(re) THEN MultiRoleExperience(k, re, lines)
                       ELSE SingleRoleExperience(k, tInterval)
            IN IF exp.threw
               THEN /\ pc' = "done" /\ outcome' = Threw("TypeError")
                    /\ UNCHANGED <<mappers, built>>
               ELSE /\ mappers' = [mappers EXCEPT ![k].at = "done"]
                    /\ built' = PromiseAllPut(built, k,
                                  [settled |-> TRUE, block |-> exp.block,
                                   path |-> exp.path, roles |-> exp.roles])
                    /\ IF \A j \in 1..Len(mappers) : mappers'[j].at = "done"
                       THEN pc' = "done" /\ outcome' = Returned(Experiences(built'))
                       ELSE UNCHANGED <<pc, outcome>>
  /\ UNCHANGED <<pageVars, call, log, skillVars, popupVars, fnVars, authVars, blocks>>

CallExperiences == CallMethod("experiences", FALSE, "null")

ExperiencesInit ==
  /\ CallIdle
  /\ blocks \in SeqsUpTo(BlockConfigs, MaxBlocks)
  /\ contextFile = FALSE
  /\ FnIdle

ExperiencesNext ==
  \/ CallExperiences
  \/ BreakSurface
  \/ InitStep
  \/ SectionProbe
  \/ ClickUntilElementDissapears
  \/ EnumerateItems
  \/ \E k \in 1..MaxBlocks + 1 : k <= Len(mappers) /\ RoleQueryResolves(k)
  \/ \E k \in 1..MaxBlocks + 1 : k <= Len(mappers) /\ BlockDriver(k)
  \/ \E k \in 1..MaxBlocks + 1 : k <= Len(mappers) /\ JoinBlock(k)

ExperiencesSpec == ExperiencesInit /\ [][ExperiencesNext]_vars

(***************************************************************************)
(* The username of an endorser, line 407, on every profile URL.            *)
(***************************************************************************)
HrefAlphabet == {"/", "i", "n"}
HrefTexts == SeqsUpTo(HrefAlphabet, MaxHrefLen)

UsernameInit ==
  /\ MainIdle
  /\ text \in HrefTexts
  /\ parsed = <<>>
  /\ phase = "input"

\* lines 401-407, on the href getAttributeSafe gave
DeriveUsername ==
  /\ phase = "input"
  /\ parsed' = UsernameOf(text)
  /\ phase' = "username"
  /\ UNCHANGED <<text, mainVars>>

UsernameSpec == UsernameInit /\ [][DeriveUsername]_vars

(***************************************************************************)
(* The delay of the scroll loop, line 389:                                 *)
(*   page.waitForTimeout(Math.random() * 5000 + 5000)                      *)
(* in IEEE 754 double arithmetic, rounding to nearest, ties to even.       *)
(*                                                                         *)
(* Math.random() gives a multiple of 2^-52 in [0, 1).  The values followed *)
(* are the eighths 0, 1/8, ..., 7/8 and the values next below 1, that is   *)
(* 1 - below * 2^-52: a record [eighths, below] stands for                 *)
(* eighths / 8 - below * 2^-52.                                            *)
(***************************************************************************)
MathRandom ==
  {[eighths |-> k, below |-> 0] : k \in 0..7}
    \cup {[eighths |-> 8, below |-> j] : j \in 1..MaxBelow}

\* n / d rounded to the nearest integer, a tie to the even one
RoundHalfEven(n, d) ==
  LET q == n \div d
      r == n % d
  IN IF 2 * r < d THEN q
     ELSE IF 2 * r > d THEN q + 1
     ELSE IF q % 2 = 0 THEN q ELSE q + 1

\* A double [ms, below, ulp] stands for ms - below * 2^-ulp, below counted in the
\* spacing of the doubles of its binade: 2^-40 in [4096, 8192), 2^-39 in
\* [8192, 16384).
\* r * 5000: exact for the eighths (625 * eighths); for 1 - below * 2^-52 the exact
\* product 5000 - below * (625 / 512) * 2^-40 is rounded to the spacing 2^-40.
Times5000(r) ==
  IF r.below = 0 THEN [ms |-> 625 * r.eighths, below |-> 0, ulp |-> 40]
  ELSE [ms |-> 5000, below |-> RoundHalfEven(625 * r.below, 512), ulp |-> 40]

\* x + 5000: exact for the whole numbers; 10000 - below * 2^-40 is rounded to the
\* spacing 2^-39 (10000 * 2^39 is even, so a tie goes to the even count).
Plus5000(x) ==
  IF x.below = 0 THEN [ms |-> x.ms + 5000, below |-> 0, ulp |-> 39]
  ELSE [ms |-> x.ms + 5000, below |-> RoundHalfEven(x.below, 2), ulp |-> 39]

\* Math.random() * 5000 + 5000
ScrollDelay(r) == Plus5000(Times5000(r))

DelayInit ==
  /\ MainIdle
  /\ text = <<>>
  /\ parsed = <<>>
  /\ phase = "delays"

\* One more iteration of the loop of lines 387-391 reaches its delay.
TakeDelay ==
  /\ phase = "delays"
  /\ Len(text) < MaxDelays
  /\ \E r \in MathRandom :
       /\ parsed' = r
       /\ text' = Append(text, ScrollDelay(r))
  /\ UNCHANGED <<phase, mainVars>>

DelaySpec == DelayInit /\ [][TakeDelay]_vars

(***************************************************************************)
(* The Role records: getExperiencesWithMultipleRoles, lines 432-473, and   *)
(* getExperienceWithSingleRole, lines 512-541, on what the reads gave.     *)
(***************************************************************************)
RoleFailure ==
  [threw |-> TRUE, company |-> <<>>, name |-> <<>>, location |-> <<>>, description |-> <<>>,
   duration |-> <<>>, start |-> <<>>, end |-> <<>>, contractType |-> <<>>]

\* lines 513-516: cn.split('\n').filter((e) => e.length !== 0).map((e) => e.trim())
ParsedCompanyName(cn) ==
  LET kept == SelectSeq(SplitOn(cn, "\n"), LAMBDA e : Len(e) # 0)
  IN [i \in 1..Len(kept) |-> Trim(kept[i])]

\* lines 517 and 525: parsedCompanyName[1] ?? '' and parsedCompanyName[0]!
CompanyAndContract(cn) ==
  [name |-> At(ParsedCompanyName(cn), 0),
   contractType |-> OrElse(At(ParsedCompanyName(cn), 1), <<>>)]

\* lines 512-541: the Role of the single-role path (with the company name)
SingleRole(cn, tInterval, loc, dur, desc, rn) ==
  IF SingleRoleInterval(tInterval).threw THEN RoleFailure
  ELSE [threw |-> FALSE,
        company |-> CompanyAndContract(cn).name,
        name |-> rn,
        location |-> loc,
        description |-> desc,
        duration |-> dur,
        start |-> SingleRoleInterval(tInterval).start,
        end |-> SingleRoleInterval(tInterval).end,
        contractType |-> CompanyAndContract(cn).contractType]

\* lines 432-473: the Role of a role sub-item.  rn is what e?.textContent() gave,
\* roleInfo the text contents of the role-info lines; roleInfo[0]! and roleInfo[1]!
\* are undefined past the end and .textContent() of undefined throws.
MultiRole(rn, ct, roleInfo, description) ==
  IF Len(roleInfo) < 1 THEN RoleFailure                                     \* line 448
  ELSE IF Len(roleInfo) < 2 THEN RoleFailure                                \* line 453
  ELSE [threw |-> FALSE,
        company |-> <<>>,
        name |-> OrElse(rn, <<>>),
        location |-> OrElse(IF Len(roleInfo) > 2 THEN roleInfo[3] ELSE <<>>, <<>>),
        description |-> OrElse(description, <<>>),
        duration |-> Trim(OrElse(roleInfo[2], <<>>)),
        start |-> MultiRoleInterval(roleInfo[1]).start,
        end |-> MultiRoleInterval(roleInfo[1]).end,
        contractType |-> OrElse(ct, <<>>)]

\* What the reads of a role can give.  safeTextContent gives a string, the empty one
\* for a node that is not there; textContent() gives null for a node without text.
SafeTexts == {<<>>, <<"x">>}
TextContents == {Nothing, <<>>, <<"1", " ", "-", " ", "9">>}
SingleIntervalTexts == {<<>>, <<"-">>, <<"1">>, <<"1", " ", "-", " ", "9">>}
CompanyNameTexts == {<<>>, <<"A">>, <<"A", "\n", "F">>}

RoleReads ==
  [path : {"single"}, cn : CompanyNameTexts, tInterval : SingleIntervalTexts,
   loc : SafeTexts, dur : SafeTexts, desc : SafeTexts, rn : SafeTexts,
   ct : {<<>>}, roleInfo : {<<>>}]
  \cup
  [path : {"multi"}, cn : {<<>>}, tInterval : {<<>>}, loc : {<<>>}, dur : {<<>>},
   desc : {Nothing, <<"x">>}, rn : {Nothing, <<"x">>},
   ct : SafeTexts, roleInfo : SeqsUpTo(TextContents, MaxRoleInfo)]

RoleInit ==
  /\ MainIdle
  /\ text \in RoleReads
  /\ parsed = <<>>
  /\ phase = "input"

BuildSingleRole ==
  /\ phase = "input"
  /\ text.path = "single"
  /\ parsed' = SingleRole(text.cn, text.tInterval, text.loc, text.dur, text.desc, text.rn)
  /\ phase' = "role"
  /\ UNCHANGED <<text, mainVars>>

BuildMultiRole ==
  /\ phase = "input"
  /\ text.path = "multi"
  /\ parsed' = MultiRole(text.rn, text.ct, text.roleInfo, text.desc)
  /\ phase' = "role"
  /\ UNCHANGED <<text, mainVars>>

RoleSpec == RoleInit /\ [][BuildSingleRole \/ BuildMultiRole]_vars

(***************************************************************************)
(* The company name and the contract type of the single-role path, lines   *)
(* 513-517 and 525, on every company-name text.                            *)
(***************************************************************************)
NameAlphabet == {"A", "F", " ", "\n"}
\* safeTextContent gives the text trimmed.
NameTexts == {t \in SeqsUpTo(NameAlphabet, MaxNameLen) : Trim(t) = t}

CompanyNameInit ==
  /\ MainIdle
  /\ text \in NameTexts
  /\ parsed = <<>>
  /\ phase = "input"

ParseCompanyName ==
  /\ phase = "input"
  /\ parsed' = CompanyAndContract(text)
  /\ phase' = "company"
  /\ UNCHANGED <<text, mainVars>>

CompanyNameSpec == CompanyNameInit /\ [][ParseCompanyName]_vars

(***************************************************************************)
(* Linked.login, lines 620-631: the session's page is logged in unless an  *)
(* authenticated context is already on disk.                               *)
(***************************************************************************)
\* Linked.isFileExists, lines 693-695: fs.existsSync(filePath)
isFileExistsNever(file) == FALSE
isFileExists(file) == file

\* line 628: if (rememberMe)
SavesContext(rm) == rm

LoginBegun(found) ==
  [found |-> found, rememberMe |-> rememberMe, ops |-> <<>>, outcome |-> NoOutcome]

\* The call ends: the history keeps what it did and how it ended.
LoginEnds(l, o) ==
  /\ pc' = "done"
  /\ outcome' = o
  /\ logins' = [logins EXCEPT ![Len(logins)].ops = l, ![Len(logins)].outcome = o]

\* A caller invokes login(username, password, rememberMe).
CallLogin ==
  /\ pc \in {"idle", "done"}
  /\ Len(logins) < MaxLogins
  /\ \E rm \in BOOLEAN : rememberMe' = rm
  /\ call' = [name |-> "login", detailed |-> FALSE]
  /\ pc' = "login"
  /\ log' = <<>>
  /\ outcome' = NoOutcome
  /\ ResetLocals
  /\ UNCHANGED <<pageVars, element, fnVars, blocks, contextFile, logins>>

\* lines 621-624
LoginCheck ==
  /\ pc = "login"
  /\ IF isFileExists(contextFile)
     THEN /\ pc' = "done"
          /\ outcome' = Returned(<<>>)
          /\ logins' = Append(logins, [LoginBegun(contextFile) EXCEPT
                                         !.outcome = Returned(<<>>)])
     ELSE /\ pc' = "fill username"
          /\ logins' = Append(logins, LoginBegun(contextFile))
          /\ UNCHANGED outcome
  /\ UNCHANGED <<pageVars, call, log, skillVars, popupVars, fnVars, expVars,
                 contextFile, rememberMe>>

\* An awaited page.fill or page.click of login: it throws when the surface is broken
\* and times out when the control is not there.
LoginPageStep(at, op, then) ==
  /\ pc = at
  /\ \E present \in BOOLEAN :
       LET e == IF surfaceBroken THEN "Fatal"
                ELSE IF ~present THEN "TimeoutError" ELSE "none"
           l == Append(log, Failed(op, e))
       IN /\ log' = l
          /\ IF e # "none" THEN LoginEnds(l, Threw(e))
             ELSE IF then = "done" THEN LoginEnds(l, Returned(<<>>))
             ELSE pc' = then /\ UNCHANGED <<outcome, logins>>
  /\ UNCHANGED <<pageVars, call, skillVars, popupVars, fnVars, expVars,
                 contextFile, rememberMe>>

\* line 625
FillUsername ==
  /\ pc = "fill username"
  /\ LoginPageStep("fill username", "fill username", "fill password")

\* line 626
FillPassword ==
  /\ pc = "fill password"
  /\ LoginPageStep("fill password", "fill password", "click submit")

\* lines 627-628
ClickSubmit ==
  /\ pc = "click submit"
  /\ LoginPageStep("click submit", "click submit",
                   IF SavesContext(rememberMe) THEN "save" ELSE "done")

\* Linked.saveAuthenticatedContext, lines 674-676, called at line 629:
\* context.storageState({ path }) writes the file, or throws.
SaveAuthenticatedContext ==
  /\ pc = "save"
  /\ \E written \in BOOLEAN :
       LET e == IF surfaceBroken \/ ~written THEN "Fatal" ELSE "none"
           l == Append(log, Failed("save context", e))
       IN /\ log' = l
          /\ contextFile' = (contextFile \/ e = "none")
          /\ LoginEnds(l, IF e = "none" THEN Returned(<<>>) ELSE Threw(e))
  /\ UNCHANGED <<pageVars, call, skillVars, popupVars, fnVars, expVars, rememberMe>>

LoginInit ==
  /\ CallIdle
  /\ blocks = <<>>
  /\ contextFile \in BOOLEAN
  /\ FnIdle

LoginNext ==
  \/ CallLogin
  \/ BreakSurface
  \/ LoginCheck
  \/ FillUsername
  \/ FillPassword
  \/ ClickSubmit
  \/ SaveAuthenticatedContext

LoginSpec == LoginInit /\ [][LoginNext]_vars

(***************************************************************************)
(* about() on its own, lines 89-100: every pair of texts within the bounds *)
(* is read, or found missing.                                              *)
(***************************************************************************)
AboutAlphabet == {"a", "b", " "}
AboutPages ==
  [info : SeqsUpTo(AboutAlphabet, MaxInfoLen) \cup {Missing},
   toDelete : SeqsUpTo(AboutAlphabet, MaxDeleteLen) \cup {Missing}]

AboutInit ==
  /\ MainIdle
  /\ text \in AboutPages
  /\ parsed = <<>>
  /\ phase = "input"

\* about(), lines 89-100, on a page already at the profile URL
ReadAbout ==
  /\ phase = "input"
  /\ parsed' = AboutOutcome(text, surfaceBroken)
  /\ phase' = "about"
  /\ UNCHANGED <<text, mainVars>>

AboutSpec == AboutInit /\ [][ReadAbout]_vars

(***************************************************************************)
(* The claims.                                                             *)
(***************************************************************************)
Last(l) == l[Len(l)]

\* What the current (or last) invocation of getEndorsementsFromPopup has logged.
SubCrawlLog == SubSeq(log, gStart + 1, Len(log))

PopupOps == {"click detailLink", "wait popup", "check true", "check false", "scroll",
             "enumerate entities", "query closeButton", "click closeButton"}

\* C1: getEndorsementsFromPopup called with a null detail link short-circuits: it
\* returns an empty list without waiting for the popup, scrolling or clicking.
C1_NullElementShortCircuits ==
  (element = "null" /\ (InSubCrawl \/ (call.name = "getEndorsementsFromPopup" /\ pc = "done")))
    => /\ \A i \in 1..Len(SubCrawlLog) :
            SubCrawlLog[i].op \notin {"wait popup", "scroll", "click detailLink",
                                      "click closeButton"}
       /\ outcome.kind # "threw"
       /\ (outcome.kind = "returned" => outcome.value = <<>>)

\* C2: a timeout of the wait for the endorsers popup during the sub-crawl of one skill
\* item does not make skills(detailed = true) fail.
C2_PopupTimeoutDoesNotFailSkills ==
  ~(/\ call.name = "skills"
    /\ outcome.kind = "threw"
    /\ log # <<>>
    /\ Last(log) = Failed("wait popup", "TimeoutError"))

\* C3: when the bounded wait for the section element times out, experiences(),
\* education(), certifications() and skills() return an empty collection, and no
\* disclosure click and no item enumeration has been performed.
C3_SectionTimeoutYieldsEmpty ==
  (/\ call.name \in SectionMethods
   /\ log # <<>>
   /\ Last(log) = Failed("wait section", "TimeoutError"))
    => /\ pc = "done"
       /\ outcome = Returned(<<>>)
       /\ \A i \in 1..Len(log) :
            log[i].op \notin {"click seeMore", "enumerate items", "query detailLink"}
                               \cup PopupOps

C3_Witness ==
  /\ call.name = "certifications"
  /\ log # <<>>
  /\ Last(log) = Failed("wait section", "TimeoutError")
  /\ outcome = Returned(<<>>)

\* C4: an error that is not a timeout, raised by the section probe of a section
\* extractor or by the badge probe of isPremium / isInfluencer, is not turned into an
\* empty collection or into false: the call throws it.
C4_FatalProbeErrorPropagates ==
  (/\ log # <<>>
   /\ Last(log).err = "Fatal"
   /\ Last(log).op \in {"wait section", "wait badge"})
    => outcome = Threw("Fatal")

\* C5: skills(detailed = false) performs no operation on a detail link or on the
\* popup and every Skill it builds has no endorsements; skills(detailed = true) runs
\* the sub-crawler exactly once for every item it has gone through, never twice for
\* an item, and so exactly once per item when it returns.
C5_SubCrawlerOncePerItem ==
  call.name = "skills" =>
    /\ \A k \in 1..Len(subCrawls) :
         /\ subCrawls[k] <= 1
         /\ (k < idx => subCrawls[k] = (IF call.detailed THEN 1 ELSE 0))
         /\ (k > idx => subCrawls[k] = 0)
    /\ Len(result) <= items
    /\ (outcome.kind = "returned" /\ call.detailed
          => /\ Len(outcome.value) = items
             /\ \A k \in 1..items : subCrawls[k] = 1)
    /\ (~call.detailed
          => /\ \A i \in 1..Len(log) : log[i].op \notin PopupOps \cup {"query detailLink"}
             /\ \A k \in 1..Len(result) : result[k].endorsements = <<>>
             /\ (outcome.kind = "returned"
                   => /\ Len(outcome.value) = items
                      /\ \A k \in 1..Len(outcome.value) :
                           outcome.value[k].endorsements = <<>>))

C5_Witness ==
  /\ call.name = "skills"
  /\ call.detailed
  /\ outcome.kind = "returned"
  /\ Len(outcome.value) >= 2
  /\ \A k \in 1..items : subCrawls[k] = 1

\* The identity read from an entity node.
Identity(node) == [name |-> EntityName(node), username |-> UsernameOf(EntityHref(node))]

\* C6: getEndorsementsFromPopup returns one identity per entity node found in the list
\* container, in the order of the nodes, in whatever order the reads of the nodes
\* complete; with no entity node the result is the empty sequence.
C6_IdentitiesInEncounterOrder ==
  /\ pc = "g_map" =>
       /\ Len(users) = Len(endorsers)
       /\ Len(endorsers) = loaded
       /\ \A k \in 1..Len(users) :
            users[k].settled => /\ users[k].name = Identity(endorsers[k]).name
                                /\ users[k].username = Identity(endorsers[k]).username
  /\ (\/ call.name = "getEndorsementsFromPopup" /\ outcome.kind = "returned"
      \/ call.name = "skills" /\ call.detailed /\ pc = "push")
       => /\ users = [k \in 1..loaded |-> Identity(endorsers[k])]
          /\ Len(endorsers) = loaded
  /\ (call.name = "getEndorsementsFromPopup" /\ outcome.kind = "returned")
       => outcome.value = users

\* The read of the second node has completed and the read of the first has not.
C6_Witness ==
  /\ pc = "g_map"
  /\ Len(users) >= 2
  /\ users[2].settled
  /\ ~users[1].settled

\* C7: the entity nodes are enumerated only after a check of the scroll-complete
\* detector that returned true; after a check that returned false the next steps are a
\* scroll, a delay and a check, and the loop is left in no other way than by a check
\* that returns true (or by an error of the surface, which ends the call).
C7_EnumerateOnlyWhenScrollComplete ==
  (call.name = "getEndorsementsFromPopup" \/ (call.name = "skills" /\ gStart > 0)) =>
    /\ \A i \in 2..Len(SubCrawlLog) :
         LET prev == SubCrawlLog[i - 1].op
             this == SubCrawlLog[i].op
         IN /\ this = "enumerate entities" => prev = "check true"
            /\ this = "scroll" => prev = "check false"
            /\ this = "delay" => prev = "scroll"
            /\ this \in {"check true", "check false"} => prev \in {"wait popup", "delay"}
            /\ prev = "check false" => this = "scroll"
            /\ prev = "scroll" => this = "delay"
            /\ prev = "delay" => this \in {"check true", "check false"}
    /\ pc = "g_enumerate" => elementScrollCompleted /\ Last(log).op = "check true"
    /\ pc = "g_scroll" => ~elementScrollCompleted /\ Last(log).op = "check false"
    /\ pc = "g_delay" => Last(log).op = "scroll"
    /\ (SubCrawlLog # <<>> /\ Last(log).op = "check false")
         => pc = "g_scroll" \/ (pc = "done" /\ outcome = Threw("Fatal"))

\* The loop has gone round twice and the entities are about to be enumerated.
C7_Witness ==
  /\ pc = "g_enumerate"
  /\ ScrollsOf(log, gStart) >= 2

\* C8: after the enumeration getEndorsementsFromPopup tries to close the popup before
\* it returns, and a close control that is not found or whose click fails does not
\* make the call fail.
C8_CloseIsBestEffort ==
  /\ (call.name = "getEndorsementsFromPopup" /\ outcome.kind = "returned")
       => \E i \in 1..Len(log) : log[i].op = "query closeButton"
  /\ (log # <<>> /\ Last(log).op = "click closeButton" /\ Last(log).err # "none")
       => outcome.kind # "threw"

\* C9: a dates text that matches with an explicit expiration month and year gives that
\* text as expiration and the captured issued text as issued; the "no expiration"
\* marker without a trailing date gives "N/A"; a text that does not match gives the
\* empty string for both.
C9_CertificationDates ==
  phase = "parsed" =>
    LET m == DatesMatch(text)
    IN /\ (m.matched /\ m.g3.def)
            => parsed.expiration = m.g3.val /\ parsed.issued = m.g1.val
       /\ (m.matched /\ m.g2.def /\ ~m.g3.def) => parsed.expiration = NotAvailable
       /\ ~m.matched => parsed = [issued |-> <<>>, expiration |-> <<>>]

\* The value the claim gives for a token of the date text: the parsed integer, or -1
\* when the token is missing or is no integer.
YearOrMinusOne(di, i) ==
  IF i <= Len(di) /\ ~ParseInt(di[i]).nan THEN ParseInt(di[i]) ELSE Int_(-1)

\* C10: date.start and date.end of an Education are integers: the two parsed years
\* with two tokens, the one year twice with one token, and -1 for a token that is
\* missing or cannot be parsed.
C10_EducationDateIntegers ==
  phase = "parsed" =>
    LET di == splitDashes(text)
    IN /\ ~parsed.start.nan
       /\ ~parsed.end.nan
       /\ parsed.start = YearOrMinusOne(di, 1)
       /\ parsed.end = IF Len(di) > 1 THEN YearOrMinusOne(di, 2) ELSE YearOrMinusOne(di, 1)

\* The text has exactly one dash, at position i, with text on both sides of it.
OneDashAt(t, i) ==
  /\ 1 < i /\ i < Len(t)
  /\ t[i] = "-"
  /\ \A j \in 1..Len(t) : t[j] = "-" => j = i

\* C11: for the interval text of a role, on the single-role path and on the multi-role
\* path: two parts A and B of the dash split give start = trim(A) and end = trim(B),
\* as does a text "A-B"; one part gives start = end = trim of that part, which for a
\* text without a dash is trim(text).
C11_IntervalByDashSplit ==
  (phase \in {"single", "multi"} /\ text # Nothing) =>
    LET parts == splitDashes(text)
        iv == parsed.interval
    IN /\ Len(parts) = 2 => ~iv.threw /\ iv.start = Trim(parts[1]) /\ iv.end = Trim(parts[2])
       /\ Len(parts) = 1 => ~iv.threw /\ iv.start = Trim(parts[1]) /\ iv.end = iv.start
       /\ \A i \in 1..Len(text) : OneDashAt(text, i) =>
            /\ iv.start = Trim(SubSeq(text, 1, i - 1))
            /\ iv.end = Trim(SubSeq(text, i + 1, Len(text)))
       /\ (text # <<>> /\ \A i \in 1..Len(text) : text[i] # "-") =>
            iv.start = Trim(text) /\ iv.end = Trim(text)

\* A text "A - B" with different A and B has been parsed on the single-role path.
C11_Witness ==
  /\ phase = "single"
  /\ text = <<"1", " ", "-", " ", "9">>
  /\ parsed.interval = DateIntervalOf(<<"1">>, <<"9">>)

\* C12: experiences() returns one Experience per company block found, in the order of
\* the blocks; a block is built by the single-role path, with exactly one Role, if and
\* only if no role sub-item was found in it, and otherwise by the multi-role path, with
\* one Role per role sub-item found, in the order of the sub-items.
C12_OneExperiencePerBlock ==
  (call.name = "experiences" /\ outcome.kind = "returned") =>
    /\ Len(outcome.value) = Len(mappers)
    /\ \A k \in 1..Len(outcome.value) :
         LET e == outcome.value[k]
             re == mappers[k].re
         IN /\ e.block = k
            /\ e.path \in {"single", "multi"}
            /\ e.path = "single" <=> re = <<>>
            /\ e.path = "single" => Len(e.roles) = 1 /\ e.roles[1].item = <<k, 0>>
            /\ e.path = "multi" =>
                 /\ Len(e.roles) = Len(re)
                 /\ \A i \in 1..Len(re) : e.roles[i].item = <<k, i>>

\* experiences() has returned a single-role block followed by a block of two roles.
C12_Witness ==
  /\ call.name = "experiences"
  /\ outcome.kind = "returned"
  /\ Len(outcome.value) = 2
  /\ outcome.value[1].path = "single"
  /\ outcome.value[2].path = "multi"
  /\ Len(outcome.value[2].roles) = 2

\* C15: in experiences() the role sub-items of a company block are enumerated only
\* after the driver on the block's "expand roles" trigger has completed, so the roles
\* of a block that is built are all the role sub-items the block displays, those the
\* expansion revealed included.
C15_RolesEnumeratedAfterExpansion ==
  \A k \in 1..Len(mappers) :
    mappers[k].at = "done" => mappers[k].re = [i \in 1..blocks[k].shown |-> i]

\* The scopes of the driver invocations in progress: the section-level driver of line
\* 142 (no scope: the page) and the block-level drivers of line 152.
SectionDriverInProgress == pc = "disclose"
BlockDriverInProgress(k) == k \in 1..Len(mappers) /\ mappers[k].at = "driver"

\* C16: during experiences() no two driver invocations are in progress on the same
\* subtree: no block-level driver runs while the section-level driver does, and the
\* block-level drivers in progress together each work on a different company block.
C16_DriversOnDisjointSubtrees ==
  /\ SectionDriverInProgress => \A k \in 1..Len(mappers) : ~BlockDriverInProgress(k)
  /\ \A j, k \in 1..Len(mappers) :
       (j # k /\ BlockDriverInProgress(j) /\ BlockDriverInProgress(k)) =>
         /\ DriverScope(j) # 0
         /\ DriverScope(k) # 0
         /\ DriverScope(j) # DriverScope(k)

\* Two block-level drivers are in progress and one of them has clicked.
C16_Witness ==
  /\ pc = "blocks"
  /\ Len(mappers) = 2
  /\ BlockDriverInProgress(1)
  /\ BlockDriverInProgress(2)
  /\ \E i \in 1..Len(log) : log[i].op = "click expandRoles"

\* The URLs of the shape /in/<segment>/ and their segments.
ProfilePath(segment) == <<"/", "i", "n", "/">> \o segment \o <<"/">>
Segments == {seg \in SeqsUpTo(HrefAlphabet \ {"/"}, MaxHrefLen) : seg # <<>>}

\* C13: the username of an endorser is the segment of a profile URL of the exact shape
\* /in/<segment>/ (the segment not empty and without a slash), and the URL unchanged
\* when it is not of that shape.
C13_UsernameFromProfileUrl ==
  phase = "username" =>
    /\ \A seg \in Segments : text = ProfilePath(seg) => parsed = seg
    /\ (\A seg \in Segments : text # ProfilePath(seg)) => parsed = text

\* A URL of the shape has given its segment.
C13_Witness ==
  /\ phase = "username"
  /\ text = <<"/", "i", "n", "/", "n", "i", "/">>
  /\ parsed = <<"n", "i">>

\* Comparisons of a double [ms, below, ulp] with the two ends of the range.
AtLeast5000(d) == d.ms > 5000 \/ (d.ms = 5000 /\ d.below = 0)
Below10000(d) == d.ms < 10000 \/ (d.ms = 10000 /\ d.below > 0)

\* C14: every delay taken between two scrolls of the endorsers list is at least 5000 ms
\* and strictly less than 10000 ms, whatever the number of the iteration.
C14_DelayWithinRange ==
  phase = "delays" =>
    \A i \in 1..Len(text) : AtLeast5000(text[i]) /\ Below10000(text[i])

\* The places of the log where a sub-crawl is entered (the query for the detail link
\* that is handed to it) and where one reaches its last operation, the close.
SubCrawlStarts == {i \in 1..Len(log) : log[i].op = "query detailLink"}
SubCrawlEnds == {i \in 1..Len(log) : log[i].op = "query closeButton"}

\* C17: in skills(detailed = true) the endorsement sub-crawls are strictly sequential:
\* the sub-crawl of an item has reached its end before the detail link of the next item
\* is queried and clicked, at most one sub-crawl is open at any time, the loop pushes
\* the Skill of item k as the k-th, and the list returned has one Skill per skill item.
C17_SubCrawlsSequential ==
  call.name = "skills" =>
    /\ \A p, q \in SubCrawlStarts : p < q => \E r \in SubCrawlEnds : p < r /\ r < q
    /\ Cardinality(SubCrawlStarts) - Cardinality(SubCrawlEnds) \in {0, 1}
    /\ \A c \in 1..Len(log) : log[c].op = "click detailLink" =>
         /\ c - 1 \in SubCrawlStarts
         /\ Cardinality({p \in SubCrawlStarts : p < c})
              = Cardinality({r \in SubCrawlEnds : r < c}) + 1
    /\ (pc \in {"item", "push"} \/ InSubCrawl) => Len(result) = idx - 1
    /\ (pc \in {"item", "push"} \/ InSubCrawl) => subCrawls = [k \in 1..items |->
                                                    IF k < idx \/ (k = idx /\ pc # "item")
                                                    THEN (IF call.detailed THEN 1 ELSE 0)
                                                    ELSE 0]
    /\ outcome.kind = "returned" => Len(outcome.value) = items

\* skills(true) has returned two Skills, the detail link of each item clicked in turn.
C17_Witness ==
  /\ call.name = "skills"
  /\ call.detailed
  /\ outcome.kind = "returned"
  /\ Len(outcome.value) = 2
  /\ Cardinality({c \in 1..Len(log) : log[c].op = "click detailLink"}) = 2

\* C18: building a Role does not fail, on either path and whatever the reads gave (no
\* role-name element, fewer than two role-info lines, an interval text without a
\* part), and every string field of the Role is a string, never undefined or null.
C18_RoleFieldsAreStrings ==
  phase = "role" =>
    /\ ~parsed.threw
    /\ \A v \in {parsed.name, parsed.location, parsed.description, parsed.duration,
                 parsed.start, parsed.end, parsed.contractType} : v # Nothing

\* C19: the education date parser and the two interval parsers of the experiences
\* select the same part of the dash split as start and the same part as end, for
\* every list of parts.
C19_SharedSelectionRule ==
  (phase \in {"single", "multi", "education"} /\ text # Nothing) =>
    LET parts == splitDashes(text)
    IN Len(parts) >= 1 =>
         /\ parsed.selected = SingleRoleSelect(parts)
         /\ parsed.selected = MultiRoleSelect(parts)
         /\ parsed.selected = EducationSelect(parts)

\* The lines of a text that are not empty once trimmed, trimmed, in order.
NonEmptyLines(t) ==
  LET ls == SplitOn(t, "\n")
      trimmed == [i \in 1..Len(ls) |-> Trim(ls[i])]
  IN SelectSeq(trimmed, LAMBDA e : e # <<>>)

\* C20: on the single-role path the company name is the first line of the
\* company-name text that is not empty once trimmed and the contract type the second
\* such line, or the empty string when there is none; an empty or blank line is never
\* taken as either.
C20_CompanyNameAndContractType ==
  phase = "company" =>
    LET ls == NonEmptyLines(text)
    IN /\ Len(ls) >= 1 => parsed.name = ls[1]
       /\ Len(ls) >= 2 => parsed.contractType = ls[2]
       /\ Len(ls) < 2 => parsed.contractType = <<>>

LoginOps(rm) ==
  <<"fill username", "fill password", "click submit">>
    \o (IF rm THEN <<"save context">> ELSE <<>>)
OpsOf(l) == [i \in 1..Len(l) |-> l[i].op]
IsPrefix(a, b) == Len(a) <= Len(b) /\ SubSeq(b, 1, Len(a)) = a
SavedContext(login) == login.ops # <<>> /\ Last(login.ops) = Ev("save context")

\* C21: login() is a no-op whenever a file exists at the authenticated-context path
\* (no fill, no click, no save); otherwise it fills the username, fills the password
\* and clicks submit in that order (stopping at the first that throws), and saves the
\* context if and only if rememberMe is true.  Hence after a login with rememberMe
\* has saved the context, every later login performs no page action.
C21_LoginSkipsWhenContextSaved ==
  \A j \in 1..Len(logins) :
    LET login == logins[j]
        did == IF login.outcome = NoOutcome THEN log ELSE login.ops
    IN /\ login.found => did = <<>> /\ login.outcome = Returned(<<>>)
       /\ ~login.found =>
            /\ IsPrefix(OpsOf(did), LoginOps(login.rememberMe))
            /\ \A i \in 1..Len(did) - 1 : did[i].err = "none"
            /\ login.outcome.kind = "returned" =>
                 /\ OpsOf(did) = LoginOps(login.rememberMe)
                 /\ Last(did).err = "none"
       /\ SavedContext(login) => contextFile
       /\ \A i \in 1..j - 1 :
            logins[i].rememberMe /\ SavedContext(logins[i]) => did = <<>>

\* A login without rememberMe has filled, clicked and saved nothing; the next, with
\* rememberMe, has saved the context; the third found the file and did nothing.
C21_Witness ==
  /\ Len(logins) = 3
  /\ pc = "done"
  /\ ~logins[1].found /\ ~logins[1].rememberMe
  /\ logins[1].outcome.kind = "returned"
  /\ ~logins[2].found /\ logins[2].rememberMe /\ SavedContext(logins[2])
  /\ logins[3].found /\ logins[3].ops = <<>>

Resting == {"idle", "done"}
GotoIn(l, from) == \E i \in (from + 1)..Len(l) : l[i].op = "goto"

\* The step navigates: it adds a goto to the log of the call.
Navigated == GotoIn(log', IF IsPrefix(log, log') THEN Len(log) ELSE 0)

\* C22: every public extractor completes init() before its first read of the page,
\* and init() navigates if and only if the page's URL differs from the encoded profile
\* URL: while the page is at the profile URL no step of any extractor call navigates,
\* and the page stays there.
C22_InitBeforeReadNavigatesIffElsewhere ==
  [][/\ (pc \in Resting /\ pc' \notin Resting /\ call'.name \in Extractors)
          => (pc' = "init" /\ log' = <<>>)
     /\ (pc = "init" /\ call.name \in Extractors) => log = <<>>
     /\ (pc = "init" /\ pc' # "init") =>
          /\ Navigated <=> pageUrl # "profile"
          /\ Len(log') = IF Navigated THEN 1 ELSE 0
     /\ pc # "init" => ~Navigated
     /\ pageUrl = "profile" => (pageUrl' = "profile" /\ ~Navigated)
    ]_vars

\* about() has returned from a page that was at the profile URL: its init() did not
\* navigate and its two reads followed.
C22_Witness ==
  /\ call.name = "about"
  /\ pc = "done"
  /\ outcome.kind = "returned"
  /\ pageUrl = "profile"
  /\ Len(log) = 2
  /\ ~GotoIn(log, 0)

\* The 1-based places where id occurs in ri, and ri without the n characters at i.
Occurrences(ri, id) ==
  {i \in 1..(Len(ri) - Len(id) + 1) : SubSeq(ri, i, i + Len(id) - 1) = id}
Without(ri, i, n) == SubSeq(ri, 1, i - 1) \o SubSeq(ri, i + n, Len(ri))

\* C23: about() returns the info text with the last occurrence of the text-to-delete
\* removed and the result trimmed; when the text-to-delete does not occur in the info
\* text, the info text is returned whole, trimmed; and when a read times out it
\* returns the empty string.
C23_AboutRemovesLastOccurrence ==
  phase = "about" =>
    IF text.info = Missing \/ text.toDelete = Missing
    THEN parsed = Returned(<<>>)
    ELSE LET occ == Occurrences(text.info, text.toDelete)
         IN IF occ # {}
            THEN parsed = Returned(Trim(Without(text.info, MaxOf(occ),
                                                Len(text.toDelete))))
            ELSE parsed = Returned(Trim(text.info))

====
